---- MODULE Spec2Model ----
(***************************************************************************)
(* A model of the request / authentication / dispatch pipeline of the     *)
(* go-openproject client library:                                          *)
(*   - the generic dispatcher (Get, GetList, Create, Delete) with the     *)
(*     resolvers getObjectAndClient / getObjectListAndClient, Client.Do,  *)
(*     CheckResponse, newResponse and populatePageValues;                  *)
(*   - the resource-service wrappers of WorkPackageService and            *)
(*     UserService.GetListWithContext;                                     *)
(*   - the three authenticating RoundTrippers (basic, cookie, JWT) with   *)
(*     cloneRequest and the JWT canonical request string;                  *)
(*   - FilterOptions.prepareFilters and interpretOperator.                 *)
(*                                                                         *)
(* Go strings are TLA+ strings where only concatenation is needed, and    *)
(* sequences of one-character strings where the code looks inside them    *)
(* (escaping, sorting).  A nil pointer / nil interface is a record whose  *)
(* type field is "nil"; a panic is an outcome of the call.                 *)
(***************************************************************************)
EXTENDS Integers, Sequences, FiniteSets, TLC

VARIABLES
    last,            \* the dispatcher call the caller has just made and what it got back
    filt,            \* the latest FilterOptions and the url.Values prepareFilters made of it
    canon,           \* two request URLs and the canonical strings computed for them
    AuthURL,         \* CookieAuthTransport.AuthURL
    SessionObject,   \* CookieAuthTransport.SessionObject
    loginCount,      \* login exchanges the cookie transport has made (authClient.Do calls)
    cookieRequests,  \* RoundTrip calls made on the cookie transport
    cookieFailures,  \* those of them that returned an error
    rt,              \* the latest RoundTrip call: its input, what it forwarded, what it returned
    tm,              \* a Time, the bytes MarshalJSON made of it, the Time UnmarshalJSON read back
    baseURL,         \* Client.baseURL, and whether NewClient returned a Client at all
    built,           \* the latest request built against baseURL and what became of it
    callers,         \* two goroutines inside CookieAuthTransport.RoundTrip: where each one is
    slice,           \* the words of the slice header t.SessionObject as memory holds them
    stores           \* the goroutines that began or ended their store of t.SessionObject, in order

dispatchVars == <<last>>

filterVars == <<filt>>

canonVars == <<canon>>

authVars == <<AuthURL, SessionObject, loginCount, cookieRequests, cookieFailures, rt>>

timeVars == <<tm>>

urlVars == <<baseURL, built>>

raceVars == <<callers, slice, stores>>

vars ==
    <<last, filt, canon, AuthURL, SessionObject, loginCount, cookieRequests, cookieFailures, rt,
      tm, baseURL, built, callers, slice, stores>>

(***************************************************************************)
(* Bounds of the model.                                                    *)
(***************************************************************************)
MaxPage == 1         \* total / count / pageSize / offset of an envelope range over 0..MaxPage
MaxId == 1           \* ids of single resources range over 1..MaxId
MaxFields == 2       \* a FilterOptions holds at most MaxFields triples
MaxQuery == 2        \* a request URL holds at most MaxQuery query parameters
MaxCookies == 2      \* a login response sets at most MaxCookies cookies
MaxRequests == 3     \* requests sent through the cookie transport
MaxDay == 2          \* the instants of the Time values lie in days 1..MaxDay after 1970-01-01

(***************************************************************************)
(* Resource kinds and service handles.                                     *)
(***************************************************************************)
Kinds ==
    {"Attachment", "Category", "Project", "Query", "Status", "User", "WikiPage", "WorkPackage"}

\* A handle passed as objService: the dynamic type of the interface value and
\* the value of its client field.  "AuthenticationService" stands for any value
\* whose dynamic type is none of the eight *XxxService types of the type switch.
ServiceTypes == Kinds \cup {"AuthenticationService"}

TheClient == "client"
NilClient == "nil"

Handles == [type : ServiceTypes, client : {TheClient, NilClient}]

\* The handles NewClient creates: every service points back to its Client.
OwnedHandle(k) == [type |-> k, client |-> TheClient]

(***************************************************************************)
(* Objects: decoded results.  type "nil" is the nil interface value.       *)
(***************************************************************************)
ZeroObj(t) == [type |-> t, id |-> 0, total |-> 0, count |-> 0, pageSize |-> 0, offset |-> 0]

NilObj == ZeroObj("nil")

\* The envelope type getObjectListAndClient allocates for a kind.
EnvelopeType ==
    [k \in {"Category", "Project", "Query", "Status", "User", "WorkPackage"} |->
        CASE k = "Category" -> "CategoryList"
          [] k = "Project" -> "SearchResultProject"
          [] k = "Query" -> "SearchResultQuery"
          [] k = "Status" -> "SearchResultStatus"
          [] k = "User" -> "SearchResultUser"
          [] k = "WorkPackage" -> "SearchResultWP"]

EnvelopeTypes == {EnvelopeType[k] : k \in DOMAIN EnvelopeType} \cup {"searchResultUser"}

(***************************************************************************)
(* getObjectAndClient: the type switch over the eight *XxxService types.   *)
(* Returns the client field of the service and new(<Kind>); both results   *)
(* keep their zero value (nil) when no case matches.                       *)
(***************************************************************************)
getObjectAndClient(inputObj) ==
    IF inputObj.type \in Kinds
    THEN [client |-> inputObj.client, resultObj |-> ZeroObj(inputObj.type)]
    ELSE [client |-> NilClient, resultObj |-> NilObj]

(***************************************************************************)
(* getObjectListAndClient: the Attachment case sets only the client (the   *)
(* envelope is a TODO), the WikiPage case is commented out.                *)
(***************************************************************************)
getObjectListAndClient(inputObj) ==
    CASE inputObj.type = "Attachment" ->
            [client |-> inputObj.client, resultObjList |-> NilObj]
      [] inputObj.type \in DOMAIN EnvelopeType ->
            [client |-> inputObj.client,
             resultObjList |-> ZeroObj(EnvelopeType[inputObj.type])]
      [] OTHER -> [client |-> NilClient, resultObjList |-> NilObj]

(***************************************************************************)
(* HTTP: what the server (or the network) answers to one request.          *)
(***************************************************************************)
StatusCodes == {199, 200, 299, 300, 404}

PageVals == 0..MaxPage

\* A response body.  json = "invalid": the bytes are not JSON the decoder
\* accepts; "object": a JSON object with the given members (0 = absent);
\* readable = FALSE: reading the body fails before its end (ioutil.ReadAll
\* and the decoder both report an error).
Body(j, r, i, t, c, p, o) ==
    [json |-> j, readable |-> r, id |-> i, total |-> t, count |-> c, pageSize |-> p, offset |-> o]

Bodies ==
    {Body("invalid", TRUE, 0, 0, 0, 0, 0), Body("object", FALSE, 0, 0, 0, 0, 0)}
    \cup {Body("object", TRUE, i, 0, 0, 0, 0) : i \in 1..MaxId}
    \cup {Body("object", TRUE, 0, t, c, p, o) : t \in PageVals, c \in PageVals,
                                                  p \in PageVals, o \in PageVals}

NoBody == Body("none", TRUE, 0, 0, 0, 0, 0)

\* The raw *http.Response; present = FALSE is the nil pointer.
HttpResponse(st, b) == [present |-> TRUE, status |-> st, body |-> b]

NilHttpResponse == [present |-> FALSE, status |-> 0, body |-> NoBody]

\* Outcomes of httpClient.Do: a transport error, or a response.
Replies ==
    {[neterr |-> TRUE, resp |-> NilHttpResponse]}
    \cup {[neterr |-> FALSE, resp |-> HttpResponse(st, b)] : st \in StatusCodes, b \in Bodies}

(***************************************************************************)
(* Errors, by kind.  "nil" is the nil error.                               *)
(***************************************************************************)
ErrNil == "nil"
ErrNullClient == "Null client, object not identified"
ErrParse == "url.Parse"
ErrTransport == "transport"
ErrStatus == "request failed. Status code"
ErrDecode == "json decode"
ErrRead == "could not read the returned data"
ErrUnmarshal == "could not unmarshall the data into struct"

(***************************************************************************)
(* Response: the wrapper returned to callers.  present = FALSE is nil.     *)
(***************************************************************************)
NilResponse ==
    [present |-> FALSE, raw |-> NilHttpResponse,
     Total |-> 0, Count |-> 0, PageSize |-> 0, Offset |-> 0]

\* populatePageValues: the type switch knows *SearchResultWP,
\* *SearchResultUser and *SearchResultQuery only.
populatePageValues(r, v) ==
    IF v.type \in {"SearchResultWP", "SearchResultUser", "SearchResultQuery"}
    THEN [r EXCEPT !.Total = v.total, !.Count = v.count,
                   !.PageSize = v.pageSize, !.Offset = v.offset]
    ELSE r

newResponse(r, v) ==
    populatePageValues(
        [present |-> TRUE, raw |-> r, Total |-> 0, Count |-> 0, PageSize |-> 0, Offset |-> 0],
        v)

\* CheckResponse: nil for 200..299, an error otherwise.
CheckResponse(r) == IF 200 <= r.status /\ r.status <= 299 THEN ErrNil ELSE ErrStatus

\* json.NewDecoder(body).Decode(v) / json.Unmarshal(data, v): members of the
\* JSON object that the target type has are stored, the others are ignored,
\* and on an error the target keeps its value.
JSONError(b) == b.json # "object" \/ ~b.readable

IsEnvelope(v) == v.type \in EnvelopeTypes

Decode(b, v) ==
    IF JSONError(b) THEN v
    ELSE IF IsEnvelope(v)
         THEN [v EXCEPT !.total = b.total, !.count = b.count,
                        !.pageSize = b.pageSize, !.offset = b.offset]
         ELSE [v EXCEPT !.id = b.id]

(***************************************************************************)
(* Requests.                                                               *)
(***************************************************************************)
\* The url.Values a request's RawQuery encodes; empty when the code leaves it alone.
NoQuery == <<>>

Request(m, u, b) == [method |-> m, url |-> u, body |-> b, rawQuery |-> NoQuery]

\* Endpoints callers pass.  url.Parse rejects BadURLs: ":bad" for its missing
\* protocol scheme, "%zz" for its invalid escape.
WorkPackageIDs == {"1", "%zz"}

BadURLs == {":bad", "api/v3/work_packages/%zz"}

Endpoints == {"api/v3/work_packages/1", "api/v3/projects/", ":bad"}

\* Client.NewRequestWithContext on receiver c.  url.Parse runs first and does
\* not touch the receiver; c.baseURL is then read, which panics on a nil c.
\* (The resolution against baseURL and the headers set from
\* Client.Authentication are not part of the request record.)
NewRequestWithContext(c, method, urlStr, body) ==
    IF urlStr \in BadURLs THEN [outcome |-> "return", req |-> Request(method, urlStr, body), err |-> ErrParse]
    ELSE IF c = NilClient THEN [outcome |-> "panic", req |-> Request(method, urlStr, body), err |-> ErrNil]
    ELSE [outcome |-> "return", req |-> Request(method, urlStr, body), err |-> ErrNil]

\* strings.TrimRight(apiEndPoint, "/") on the endpoints of the model.
TrimRightSlash(s) == IF s = "api/v3/projects/" THEN "api/v3/projects" ELSE s

(***************************************************************************)
(* Client.Do(req, v) against the reply the transport gives.                *)
(* Returns the Response, the error and the value v now holds.              *)
(***************************************************************************)
Do(reply, v) ==
    IF reply.neterr
    THEN [resp |-> NilResponse, err |-> ErrTransport, v |-> v]
    ELSE IF CheckResponse(reply.resp) # ErrNil
    THEN [resp |-> newResponse(reply.resp, NilObj), err |-> CheckResponse(reply.resp), v |-> v]
    ELSE IF v.type # "nil"
    THEN [resp |-> newResponse(reply.resp, Decode(reply.resp.body, v)),
          err |-> IF JSONError(reply.resp.body) THEN ErrDecode ELSE ErrNil,
          v |-> Decode(reply.resp.body, v)]
    ELSE [resp |-> newResponse(reply.resp, v), err |-> ErrNil, v |-> v]

(***************************************************************************)
(* Filters: SearchOperator, interpretOperator, FilterOptions.prepareFilters *)
(***************************************************************************)
Equal == 0
Different == 1
GreaterThan == 2
LowerThan == 3
SearchString == 4
Like == 5
GreaterOrEqual == 6
LowerOrEqual == 7

SearchOperators ==
    {Equal, Different, GreaterThan, LowerThan, SearchString, Like, GreaterOrEqual, LowerOrEqual}

\* interpretOperator: "=" unless the operator is one of the three cases of the switch.
interpretOperator(operator) ==
    CASE operator = GreaterThan -> ">"
      [] operator = LowerThan -> "<"
      [] operator = Different -> "<>"
      [] OTHER -> "="

FieldNames == {"status", "type"}
FieldValues == {"open", "1"}

OptionsFields == [Field : FieldNames, Operator : SearchOperators, Value : FieldValues]

\* FilterOptions values with at most n triples in Fields.
FilterOptionsUpTo(n) == UNION {[Fields : [1..k -> OptionsFields]] : k \in 0..n}

paramFilters == "filters"

\* fmt.Sprintf("{\"%[1]v\":{\"operator\":\"%[2]v\",\"values\":[\"%[3]v\"]}}", ...)
FilterObject(field) ==
    "{\"" \o field.Field \o "\":{\"operator\":\"" \o interpretOperator(field.Operator)
        \o "\",\"values\":[\"" \o field.Value \o "\"]}}"

\* The loop of prepareFilters: filterTemplate += s for each field, in order.
RECURSIVE FilterTemplateLoop(_, _)
FilterTemplateLoop(fields, i) ==
    IF i > Len(fields) THEN ""
    ELSE FilterObject(fields[i]) \o FilterTemplateLoop(fields, i + 1)

\* prepareFilters: a url.Values with the one key "filters" and one value.
prepareFilters(fops) ==
    [k \in {paramFilters} |-> <<"[" \o FilterTemplateLoop(fops.Fields, 1) \o "]">>]

(***************************************************************************)
(* The generic dispatcher.  Each operator is one call: it takes the handle, *)
(* the endpoint and the reply the transport will give if it is asked, and   *)
(* yields what the caller gets: outcome "return" with (obj, resp, err), or  *)
(* outcome "panic"; sent is the sequence of requests handed to the          *)
(* transport during the call.  (client is used by the resolver steps only.) *)
(***************************************************************************)
Result(out, obj, resp, err, sent) ==
    [outcome |-> out, obj |-> obj, resp |-> resp, err |-> err, sent |-> sent,
     client |-> NilClient]

Panic(sent) == Result("panic", NilObj, NilResponse, ErrNil, sent)

\* NewOpenProjectError wraps a non-nil error; the kind of the error is kept.
NewOpenProjectError(resp, err) == err

\* options *FilterOptions: the nil pointer, or a FilterOptions value.
NoOptions == [isNil |-> TRUE, Fields |-> <<>>]

SomeOptions(fields) == [isNil |-> FALSE, Fields |-> fields]

DispatchOptions ==
    {NoOptions, SomeOptions(<<>>),
     SomeOptions(<<[Field |-> "status", Operator |-> Equal, Value |-> "open"]>>)}

WithQuery(req, options) ==
    IF options.isNil THEN req ELSE [req EXCEPT !.rawQuery = prepareFilters(options)]

GetWithContext_NoNilCheck(objService, apiEndPoint, reply) ==
    LET oc == getObjectAndClient(objService)
        nr == NewRequestWithContext(oc.client, "GET", TrimRightSlash(apiEndPoint), NilObj)
        d == Do(reply, oc.resultObj)
    IN  IF nr.outcome = "panic" THEN Panic(<<>>)
        ELSE IF nr.err # ErrNil THEN Result("return", NilObj, NilResponse, nr.err, <<>>)
        ELSE IF d.err # ErrNil
        THEN Result("return", NilObj, d.resp, NewOpenProjectError(d.resp, d.err), <<nr.req>>)
        ELSE Result("return", d.v, d.resp, ErrNil, <<nr.req>>)

GetWithContext(objService, apiEndPoint, reply) ==
    LET oc == getObjectAndClient(objService)
        nr == NewRequestWithContext(oc.client, "GET", TrimRightSlash(apiEndPoint), NilObj)
        d == Do(reply, oc.resultObj)
    IN  IF oc.client = NilClient
        THEN Result("return", NilObj, NilResponse, ErrNullClient, <<>>)
        ELSE IF nr.outcome = "panic" THEN Panic(<<>>)
        ELSE IF nr.err # ErrNil THEN Result("return", NilObj, NilResponse, nr.err, <<>>)
        ELSE IF d.err # ErrNil
        THEN Result("return", NilObj, d.resp, NewOpenProjectError(d.resp, d.err), <<nr.req>>)
        ELSE Result("return", d.v, d.resp, ErrNil, <<nr.req>>)

GetListWithContext(objService, apiEndPoint, options, reply) ==
    LET oc == getObjectListAndClient(objService)
        nr == NewRequestWithContext(oc.client, "GET", TrimRightSlash(apiEndPoint), NilObj)
        req == WithQuery(nr.req, options)
        d == Do(reply, oc.resultObjList)
    IN  IF nr.outcome = "panic" THEN Panic(<<>>)
        ELSE IF nr.err # ErrNil THEN Result("return", NilObj, NilResponse, nr.err, <<>>)
        ELSE IF d.err # ErrNil
        THEN Result("return", NilObj, d.resp, NewOpenProjectError(d.resp, d.err), <<req>>)
        ELSE Result("return", d.v, d.resp, ErrNil, <<req>>)

\* CreateWithContext: the POST body is resultObj as getObjectAndClient made
\* it; the response body is read and unmarshalled apart from Client.Do.
CreateWithContext(objService, apiEndPoint, reply) ==
    LET oc == getObjectAndClient(objService)
        nr == NewRequestWithContext(oc.client, "POST", apiEndPoint, oc.resultObj)
        d == Do(reply, NilObj)
        b == reply.resp.body
    IN  IF nr.outcome = "panic" THEN Panic(<<>>)
        ELSE IF nr.err # ErrNil THEN Result("return", NilObj, NilResponse, nr.err, <<>>)
        ELSE IF d.err # ErrNil THEN Result("return", NilObj, d.resp, d.err, <<nr.req>>)
        ELSE IF ~b.readable THEN Result("return", NilObj, d.resp, ErrRead, <<nr.req>>)
        ELSE IF JSONError(b) THEN Result("return", NilObj, d.resp, ErrUnmarshal, <<nr.req>>)
        ELSE Result("return", Decode(b, oc.resultObj), d.resp, ErrNil, <<nr.req>>)

\* A DeleteWithContext that asks the transport a second time when the first
\* call ended in an error.
DeleteWithContext_RetryOnError(objService, apiEndPoint, reply) ==
    LET oc == getObjectAndClient(objService)
        nr == NewRequestWithContext(oc.client, "DELETE", TrimRightSlash(apiEndPoint), NilObj)
        d == Do(reply, NilObj)
    IN  IF nr.outcome = "panic" THEN Panic(<<>>)
        ELSE IF nr.err # ErrNil THEN Result("return", NilObj, NilResponse, nr.err, <<>>)
        ELSE IF d.err # ErrNil THEN Result("return", NilObj, d.resp, d.err, <<nr.req, nr.req>>)
        ELSE Result("return", NilObj, d.resp, d.err, <<nr.req>>)

DeleteWithContext(objService, apiEndPoint, reply) ==
    LET oc == getObjectAndClient(objService)
        nr == NewRequestWithContext(oc.client, "DELETE", TrimRightSlash(apiEndPoint), NilObj)
        d == Do(reply, NilObj)
    IN  IF nr.outcome = "panic" THEN Panic(<<>>)
        ELSE IF nr.err # ErrNil THEN Result("return", NilObj, NilResponse, nr.err, <<>>)
        ELSE Result("return", NilObj, d.resp, d.err, <<nr.req>>)

(***************************************************************************)
(* Resource services.                                                       *)
(***************************************************************************)
\* x.(*T) on an interface value: the value when its dynamic type is *T, a
\* run-time panic otherwise (also when the interface is nil).
TypeAssert(r, t) == IF r.obj.type = t THEN r ELSE Panic(r.sent)

WorkPackageService_GetWithContext(s, workpackageID, reply) ==
    TypeAssert(GetWithContext(s, "api/v3/work_packages/" \o workpackageID, reply), "WorkPackage")

WorkPackageService_CreateWithContext(s, projectName, reply) ==
    TypeAssert(CreateWithContext(s, "api/v3/projects/" \o projectName \o "/work_packages", reply),
               "WorkPackage")

\* A WorkPackageService.Create whose POST body is the workPackage it is given.
WorkPackageService_Create_SendsPayload(s, workPackage, projectName, reply) ==
    LET r == WorkPackageService_CreateWithContext(s, projectName, reply)
    IN  [r EXCEPT !.sent = [i \in DOMAIN r.sent |-> [r.sent[i] EXCEPT !.body = workPackage]]]

\* WorkPackageService.Create: the workPackage argument is not used.
WorkPackageService_Create(s, workPackage, projectName, reply) ==
    WorkPackageService_CreateWithContext(s, projectName, reply)

\* objList.(*SearchResultWP).Embedded.Elements: the elements are not modelled,
\* the caller gets the envelope.
WorkPackageService_GetListWithContext(s, options, reply) ==
    TypeAssert(GetListWithContext(s, "api/v3/work_packages", options, reply), "SearchResultWP")

WorkPackageService_DeleteWithContext(s, workpackageID, reply) ==
    DeleteWithContext(s, "api/v3/work_packages/" \o workpackageID, reply)

\* UserService.GetListWithContext builds its own request and decodes into a
\* searchResultUser; it returns v.Embedded.Elements, the response and the error.
UserService_GetListWithContext(s, options, reply) ==
    LET nr == NewRequestWithContext(s.client, "GET", "api/v3/users", NilObj)
        req == WithQuery(nr.req, options)
        d == Do(reply, ZeroObj("searchResultUser"))
    IN  IF nr.outcome = "panic" THEN Panic(<<>>)
        ELSE IF nr.err # ErrNil THEN Result("return", NilObj, NilResponse, nr.err, <<>>)
        ELSE IF d.err # ErrNil
        THEN Result("return", d.v, d.resp, NewOpenProjectError(d.resp, d.err), <<req>>)
        ELSE Result("return", d.v, d.resp, d.err, <<req>>)

(***************************************************************************)
(* Strings the code looks inside: sequences of one-character strings.      *)
(***************************************************************************)
\* The characters of the model in ASCII order; Code is the place in it.
AsciiOrder ==
    <<" ", "%", "&", "+", "/", "0", "1", "2", "3", "5", "6", "=",
      "B", "D", "E", "F", "G", "T", "a", "b", "e", "g", "j", "t", "w">>

Code(c) == CHOOSE i \in 1..Len(AsciiOrder) : AsciiOrder[i] = c

\* s < t, as Go compares strings: byte by byte, a proper prefix first.
RECURSIVE Less(_, _)
Less(s, t) ==
    IF t = <<>> THEN FALSE
    ELSE IF s = <<>> THEN TRUE
    ELSE IF Head(s) # Head(t) THEN Code(Head(s)) < Code(Head(t))
    ELSE Less(Tail(s), Tail(t))

RECURSIVE Flatten(_)
Flatten(ss) == IF ss = <<>> THEN <<>> ELSE Head(ss) \o Flatten(Tail(ss))

\* strings.Join(ss, sep)
RECURSIVE Join(_, _)
Join(ss, sep) ==
    IF ss = <<>> THEN <<>>
    ELSE IF Len(ss) = 1 THEN ss[1]
    ELSE ss[1] \o sep \o Join(Tail(ss), sep)

\* strings.Replace(s, old, new, -1) for a one-character old.
ReplaceChar(s, old, new) == Flatten([i \in 1..Len(s) |-> IF s[i] = old THEN new ELSE <<s[i]>>])

\* strings.Trim(s, "/")
RECURSIVE TrimLeftChar(_, _)
TrimLeftChar(s, c) == IF s # <<>> /\ Head(s) = c THEN TrimLeftChar(Tail(s), c) ELSE s

RECURSIVE TrimRightChar(_, _)
TrimRightChar(s, c) ==
    IF s # <<>> /\ s[Len(s)] = c THEN TrimRightChar(SubSeq(s, 1, Len(s) - 1), c) ELSE s

Trim(s, c) == TrimRightChar(TrimLeftChar(s, c), c)

\* strings.ToUpper
UpperChar(c) ==
    CASE c = "a" -> "A" [] c = "b" -> "B" [] c = "e" -> "E" [] c = "g" -> "G"
      [] c = "j" -> "J" [] c = "t" -> "T" [] c = "w" -> "W" [] OTHER -> c

ToUpper(s) == [i \in 1..Len(s) |-> UpperChar(s[i])]

\* url.QueryEscape: letters and digits stay, a space becomes "+", any other
\* byte becomes %XX.
EscapeChar(c) ==
    CASE c = " " -> <<"+">>
      [] c = "%" -> <<"%", "2", "5">>
      [] c = "&" -> <<"%", "2", "6">>
      [] c = "+" -> <<"%", "2", "B">>
      [] c = "/" -> <<"%", "2", "F">>
      [] c = "=" -> <<"%", "3", "D">>
      [] OTHER -> <<c>>

QueryEscape(s) == Flatten([i \in 1..Len(s) |-> EscapeChar(s[i])])

\* sort.Strings on the strings of a set (the order a map is ranged over is not
\* defined: the strings reach the sort in any order, and leave it in one).
RECURSIVE SortStrings(_)
SortStrings(S) ==
    IF S = {} THEN <<>>
    ELSE LET m == CHOOSE x \in S : \A y \in S \ {x} : Less(x, y)
         IN  <<m>> \o SortStrings(S \ {m})

(***************************************************************************)
(* JWTAuthTransport: the canonical request and its hash.                   *)
(* A URL is its Path and the key/value pairs of its query string, in the   *)
(* order they are written.                                                 *)
(***************************************************************************)
\* url.URL.Query(): for each key, its values in the order of the query string.
QueryKeys(u) == {u.Query[i].k : i \in 1..Len(u.Query)}

RECURSIVE ValuesOf(_, _)
ValuesOf(pairs, k) ==
    IF pairs = <<>> THEN <<>>
    ELSE (IF Head(pairs).k = k THEN <<Head(pairs).v>> ELSE <<>>) \o ValuesOf(Tail(pairs), k)

JwtKey == <<"j", "w", "t">>

\* One entry of canonicalQueryString: escaped key, "=", escaped joined values,
\* with every "+" replaced by "%20".
CanonicalParam(u, k) ==
    ReplaceChar(QueryEscape(k) \o <<"=">> \o QueryEscape(Join(ValuesOf(u.Query, k), <<>>)),
                "+", <<"%", "2", "0">>)

canonicalizeRequest(httpMethod, openprojURL) ==
    LET path == <<"/">> \o ReplaceChar(Trim(openprojURL.Path, "/"), "&", <<"%", "2", "6">>)
        canonicalQueryString ==
            SortStrings({CanonicalParam(openprojURL, k) : k \in QueryKeys(openprojURL) \ {JwtKey}})
    IN  ToUpper(httpMethod) \o <<"&">> \o path \o <<"&">> \o Join(canonicalQueryString, <<"&">>)

\* hex(sha256(canonical)): the hash is kept as the string it is the hash of.
createQueryStringHash(httpMethod, openprojURL) ==
    <<"sha256">> \o canonicalizeRequest(httpMethod, openprojURL)

(***************************************************************************)
(* Requests as the RoundTrippers see them.  A request holds a reference to *)
(* its header map; mem is the memory of header maps, mem[a] the map at     *)
(* address a.  A header map gives each key its list of values (<<>> when   *)
(* the key is absent).                                                     *)
(***************************************************************************)
HeaderKeys == {"Authorization", "Cookie", "Content-Type"}

\* http.Header.Get and http.Header.Set
HeaderGet(h, k) == IF h[k] = <<>> THEN "" ELSE h[k][1]

HeaderSet(h, k, v) == [h EXCEPT ![k] = <<v>>]

\* cloneRequest: a new Request struct with the fields of r, and a new header
\* map holding a copy of each value list of r.Header.
cloneRequest_SharedHeader(mem, r) == [mem |-> mem, req |-> r]

cloneRequest(mem, r) ==
    [mem |-> Append(mem, [k \in HeaderKeys |-> mem[r.Header][k]]),
     req |-> [r EXCEPT !.Header = Len(mem) + 1]]

\* http.Request.SetBasicAuth
SetBasicAuth(mem, r, username, password) ==
    [mem EXCEPT ![r.Header] =
        HeaderSet(@, "Authorization", "Basic base64(" \o username \o ":" \o password \o ")")]

\* http.Request.AddCookie: appends "name=value" to the Cookie header line.
AddCookie(mem, r, cookie) ==
    LET line == cookie.Name \o "=" \o cookie.Value
        c == HeaderGet(mem[r.Header], "Cookie")
    IN  [mem EXCEPT ![r.Header] =
            HeaderSet(@, "Cookie", IF c # "" THEN c \o "; " \o line ELSE line)]

\* What the underlying transport answers to the forwarded request.
TransportReplies == {[neterr |-> TRUE, status |-> 0], [neterr |-> FALSE, status |-> 200]}

NoReply == [neterr |-> FALSE, status |-> 0]

\* What a RoundTrip call gives back: the memory after it, whether a request
\* was forwarded and which, and the (resp, err) returned.
Forwarded(mem, req2, treply) ==
    [mem |-> mem, forwarded |-> TRUE, fwd |-> req2,
     resp |-> IF treply.neterr THEN NoReply ELSE treply,
     err |-> IF treply.neterr THEN ErrTransport ELSE ErrNil]

NotForwarded(mem, req, err) ==
    [mem |-> mem, forwarded |-> FALSE, fwd |-> req, resp |-> NoReply, err |-> err]

(***************************************************************************)
(* BasicAuthTransport                                                      *)
(***************************************************************************)
BasicAuthTransport_RoundTrip(t, mem, req, treply) ==
    LET c == cloneRequest(mem, req)
    IN  Forwarded(SetBasicAuth(c.mem, c.req, t.Username, t.Password), c.req, treply)

(***************************************************************************)
(* CookieAuthTransport                                                     *)
(***************************************************************************)
NilSession == [isNil |-> TRUE, cookies |-> <<>>]

ErrCookieAuth == "cookieauth: no session object has been set"

BadAuthURL == ":bad"

\* buildAuthRequest: http.NewRequest fails when AuthURL does not parse.
buildAuthRequest(t) == IF t.AuthURL = BadAuthURL THEN ErrParse ELSE ErrNil

\* http.Response.Cookies(): the cookies of the Set-Cookie headers; an empty,
\* non-nil slice when there is none.
ResponseCookies(loginReply) == [isNil |-> FALSE, cookies |-> loginReply.cookies]

\* setSessionObject: the session after it, its error, and the number of
\* login exchanges (authClient.Do calls) it made.  The status of the login
\* response is not looked at.
setSessionObject_NilWithoutCookies(t, loginReply) ==
    IF buildAuthRequest(t) # ErrNil
    THEN [SessionObject |-> t.SessionObject, err |-> buildAuthRequest(t), exchanges |-> 0]
    ELSE IF loginReply.neterr
    THEN [SessionObject |-> t.SessionObject, err |-> ErrTransport, exchanges |-> 1]
    ELSE [SessionObject |-> IF loginReply.cookies = <<>> THEN NilSession
                            ELSE ResponseCookies(loginReply),
          err |-> ErrNil, exchanges |-> 1]

\* A setSessionObject that looks again whether a session is there and, if
\* so, makes no login exchange.
setSessionObject_RecheckSession(t, loginReply) ==
    IF ~t.SessionObject.isNil
    THEN [SessionObject |-> t.SessionObject, err |-> ErrNil, exchanges |-> 0]
    ELSE IF buildAuthRequest(t) # ErrNil
    THEN [SessionObject |-> t.SessionObject, err |-> buildAuthRequest(t), exchanges |-> 0]
    ELSE IF loginReply.neterr
    THEN [SessionObject |-> t.SessionObject, err |-> ErrTransport, exchanges |-> 1]
    ELSE [SessionObject |-> ResponseCookies(loginReply), err |-> ErrNil, exchanges |-> 1]

setSessionObject(t, loginReply) ==
    IF buildAuthRequest(t) # ErrNil
    THEN [SessionObject |-> t.SessionObject, err |-> buildAuthRequest(t), exchanges |-> 0]
    ELSE IF loginReply.neterr
    THEN [SessionObject |-> t.SessionObject, err |-> ErrTransport, exchanges |-> 1]
    ELSE [SessionObject |-> ResponseCookies(loginReply), err |-> ErrNil, exchanges |-> 1]

\* A loop that adds every cookie of the session, the empty-valued ones too.
RECURSIVE AddSessionCookies_AllCookies(_, _, _, _)
AddSessionCookies_AllCookies(mem, r, cookies, i) ==
    IF i > Len(cookies) THEN mem
    ELSE AddSessionCookies_AllCookies(AddCookie(mem, r, cookies[i]), r, cookies, i + 1)

\* The loop of RoundTrip: AddCookie for each cookie with a non-empty value.
RECURSIVE AddSessionCookies(_, _, _, _)
AddSessionCookies(mem, r, cookies, i) ==
    IF i > Len(cookies) THEN mem
    ELSE AddSessionCookies(IF cookies[i].Value # "" THEN AddCookie(mem, r, cookies[i]) ELSE mem,
                           r, cookies, i + 1)

CookieAuthTransport_RoundTrip(t, mem, req, loginReply, treply) ==
    LET login == IF t.SessionObject.isNil
                 THEN setSessionObject(t, loginReply)
                 ELSE [SessionObject |-> t.SessionObject, err |-> ErrNil, exchanges |-> 0]
        c == cloneRequest(mem, req)
        out == IF login.err # ErrNil
               THEN NotForwarded(mem, req, ErrCookieAuth)
               ELSE Forwarded(AddSessionCookies(c.mem, c.req, login.SessionObject.cookies, 1),
                              c.req, treply)
    IN  [out |-> out, SessionObject |-> login.SessionObject, exchanges |-> login.exchanges]

(***************************************************************************)
(* JWTAuthTransport                                                        *)
(***************************************************************************)
JWTExpirySeconds == 59

\* RoundTrip: the claims iss, iat, exp and qsh, signed with HS256 and the
\* []byte Secret (which does not fail), go into the Authorization header of
\* the clone.  now and later are the two readings of the clock.
JWTAuthTransport_RoundTrip(t, mem, req, now, later, treply) ==
    LET c == cloneRequest(mem, req)
        claims == [iss |-> t.Issuer, iat |-> now, exp |-> later + JWTExpirySeconds,
                   qsh |-> createQueryStringHash(req.Method, c.req.URL)]
        jwtStr == "HS256(" \o t.Secret \o "," \o ToString(claims) \o ")"
    IN  Forwarded([c.mem EXCEPT ![c.req.Header] = HeaderSet(@, "Authorization", "JWT " \o jwtStr)],
                  c.req, treply)

(***************************************************************************)
(* The dispatcher as a state machine: a caller that makes one call at a    *)
(* time and looks at what it got before making the next one.               *)
(***************************************************************************)
Idle ==
    [op |-> "idle", handle |-> OwnedHandle("WorkPackage"), endpoint |-> "",
     options |-> NoOptions, reply |-> [neterr |-> TRUE, resp |-> NilHttpResponse],
     res |-> Result("none", NilObj, NilResponse, ErrNil, <<>>), payload |-> NilObj]

\* payload is the object the caller passes to the call, when it passes one.
CalledWith(op, h, ep, opts, reply, res, payload) ==
    [op |-> op, handle |-> h, endpoint |-> ep, options |-> opts, reply |-> reply, res |-> res,
     payload |-> payload]

Called(op, h, ep, opts, reply, res) == CalledWith(op, h, ep, opts, reply, res, NilObj)

FiltIdle == [fops |-> NoOptions, applied |-> FALSE, values |-> NoQuery]

CanonIdle ==
    [method |-> <<>>, url1 |-> [Path |-> <<>>, Query |-> <<>>],
     url2 |-> [Path |-> <<>>, Query |-> <<>>], applied |-> FALSE,
     canonical1 |-> <<>>, canonical2 |-> <<>>, qsh1 |-> <<>>, qsh2 |-> <<>>]

\* The transports before their first request.
GoodAuthURL == "https://openproject.example/login"

Header(auth, cookie) ==
    [k \in HeaderKeys |->
        CASE k = "Authorization" -> auth
          [] k = "Cookie" -> cookie
          [] OTHER -> <<"application/json">>]

NoLogin == [neterr |-> FALSE, status |-> 0, cookies |-> <<>>]

RtIdle ==
    [transport |-> "idle", headerBefore |-> Header(<<>>, <<>>), headerAfter |-> Header(<<>>, <<>>),
     forwarded |-> FALSE, fwdHeader |-> Header(<<>>, <<>>), aliased |-> FALSE,
     err |-> ErrNil, sessionBefore |-> NilSession, logins |-> 0, loginReply |-> NoLogin]

\* A Time: the instant as seconds since 1970-01-01T00:00:00Z, and the
\* offset of its Location in seconds east of UTC.
Time(unix, offset) == [unix |-> unix, offset |-> offset]

TmIdle ==
    [step |-> "idle", t |-> Time(0, 0), bytes |-> <<>>, back |-> Time(0, 0), err |-> ErrNil]

\* A url.URL, each part a sequence of characters.
URL(scheme, host, path, rawQuery, fragment) ==
    [Scheme |-> scheme, Host |-> host, Path |-> path, RawQuery |-> rawQuery, Fragment |-> fragment]

EmptyURL == URL(<<>>, <<>>, <<>>, <<>>, <<>>)

\* What NewClient returned: isNil is the nil *Client (and a non-nil error).
NoClient == [isNil |-> TRUE, baseURL |-> EmptyURL]

BuiltIdle ==
    [op |-> "idle", method |-> "", arg |-> <<>>, urlStr |-> <<>>, err |-> ErrNil, url |-> EmptyURL,
     sent |-> 0, reply |-> [neterr |-> TRUE, resp |-> NilHttpResponse], obj |-> NilObj,
     resp |-> NilResponse]

Goroutines == {1, 2}

CallerIdle == [pc |-> "idle", sawNil |-> FALSE, loginReply |-> NoLogin, session |-> NilSession,
               pending |-> {}, err |-> ErrNil, attached |-> <<>>]

TimeIdle == tm = TmIdle

URLIdle == baseURL = NoClient /\ built = BuiltIdle

RaceIdle ==
    /\ callers = [g \in Goroutines |-> CallerIdle]
    /\ slice = [ptr |-> 0, len |-> 0]
    /\ stores = <<>>

AuthIdle ==
    /\ AuthURL = GoodAuthURL
    /\ SessionObject = NilSession
    /\ loginCount = 0
    /\ cookieRequests = 0
    /\ cookieFailures = 0
    /\ rt = RtIdle

Init ==
    /\ last = Idle
    /\ filt = FiltIdle
    /\ canon = CanonIdle
    /\ AuthIdle
    /\ TimeIdle
    /\ URLIdle
    /\ RaceIdle

Get ==
    /\ last.op = "idle"
    /\ \E h \in Handles, ep \in Endpoints, reply \in Replies :
          last' = Called("Get", h, ep, NoOptions, reply, GetWithContext(h, ep, reply))
    /\ UNCHANGED <<filterVars, canonVars, authVars, timeVars, urlVars, raceVars>>

GetList ==
    /\ last.op = "idle"
    /\ \E h \in Handles, ep \in Endpoints, opts \in DispatchOptions, reply \in Replies :
          last' = Called("GetList", h, ep, opts, reply, GetListWithContext(h, ep, opts, reply))
    /\ UNCHANGED <<filterVars, canonVars, authVars, timeVars, urlVars, raceVars>>

Create ==
    /\ last.op = "idle"
    /\ \E h \in Handles, ep \in Endpoints, reply \in Replies :
          last' = Called("Create", h, ep, NoOptions, reply, CreateWithContext(h, ep, reply))
    /\ UNCHANGED <<filterVars, canonVars, authVars, timeVars, urlVars, raceVars>>

Delete ==
    /\ last.op = "idle"
    /\ \E h \in Handles, ep \in Endpoints, reply \in Replies :
          last' = Called("Delete", h, ep, NoOptions, reply, DeleteWithContext(h, ep, reply))
    /\ UNCHANGED <<filterVars, canonVars, authVars, timeVars, urlVars, raceVars>>

\* The two resolvers on their own: res.obj is the result object, res.client
\* the client they return.
Resolved(rc, obj) == [Result("return", obj, NilResponse, ErrNil, <<>>) EXCEPT !.client = rc]

ResolveObject ==
    /\ last.op = "idle"
    /\ \E h \in Handles :
          last' = Called("getObjectAndClient", h, "", NoOptions, Idle.reply,
                         Resolved(getObjectAndClient(h).client, getObjectAndClient(h).resultObj))
    /\ UNCHANGED <<filterVars, canonVars, authVars, timeVars, urlVars, raceVars>>

ResolveList ==
    /\ last.op = "idle"
    /\ \E h \in Handles :
          last' = Called("getObjectListAndClient", h, "", NoOptions, Idle.reply,
                         Resolved(getObjectListAndClient(h).client,
                                  getObjectListAndClient(h).resultObjList))
    /\ UNCHANGED <<filterVars, canonVars, authVars, timeVars, urlVars, raceVars>>

\* The receivers of the service methods: the service NewClient made, or a
\* service value built without a client.
Receivers(k) == {[type |-> k, client |-> c] : c \in {TheClient, NilClient}}

WorkPackageGet ==
    /\ last.op = "idle"
    /\ \E s \in Receivers("WorkPackage"), id \in WorkPackageIDs, reply \in Replies :
          last' = Called("WorkPackage.Get", s, id, NoOptions, reply,
                         WorkPackageService_GetWithContext(s, id, reply))
    /\ UNCHANGED <<filterVars, canonVars, authVars, timeVars, urlVars, raceVars>>

\* The work packages a caller passes to Create: the nil pointer, a zero
\* value, a populated one.
Payloads == {NilObj, ZeroObj("WorkPackage"), [ZeroObj("WorkPackage") EXCEPT !.id = 1]}

WorkPackageCreate ==
    /\ last.op = "idle"
    /\ \E s \in Receivers("WorkPackage"), wp \in Payloads, project \in {"demo"}, reply \in Replies :
          last' = CalledWith("WorkPackage.Create", s, project, NoOptions, reply,
                             WorkPackageService_Create(s, wp, project, reply), wp)
    /\ UNCHANGED <<filterVars, canonVars, authVars, timeVars, urlVars, raceVars>>

WorkPackageGetList ==
    /\ last.op = "idle"
    /\ \E s \in Receivers("WorkPackage"), opts \in DispatchOptions, reply \in Replies :
          last' = Called("WorkPackage.GetList", s, "", opts, reply,
                         WorkPackageService_GetListWithContext(s, opts, reply))
    /\ UNCHANGED <<filterVars, canonVars, authVars, timeVars, urlVars, raceVars>>

WorkPackageDelete ==
    /\ last.op = "idle"
    /\ \E s \in Receivers("WorkPackage"), id \in WorkPackageIDs, reply \in Replies :
          last' = Called("WorkPackage.Delete", s, id, NoOptions, reply,
                         WorkPackageService_DeleteWithContext(s, id, reply))
    /\ UNCHANGED <<filterVars, canonVars, authVars, timeVars, urlVars, raceVars>>

UserGetList ==
    /\ last.op = "idle"
    /\ \E s \in Receivers("User"), opts \in DispatchOptions, reply \in Replies :
          last' = Called("User.GetList", s, "", opts, reply,
                         UserService_GetListWithContext(s, opts, reply))
    /\ UNCHANGED <<filterVars, canonVars, authVars, timeVars, urlVars, raceVars>>

\* The caller has looked at the result and is ready for its next call.  A
\* panic ends the program: nothing follows it.
Continue ==
    /\ last.op # "idle"
    /\ last.res.outcome = "return"
    /\ last' = Idle
    /\ UNCHANGED <<filterVars, canonVars, authVars, timeVars, urlVars, raceVars>>

Next ==
    \/ ResolveObject
    \/ ResolveList
    \/ Get
    \/ GetList
    \/ Create
    \/ Delete
    \/ WorkPackageGet
    \/ WorkPackageCreate
    \/ WorkPackageGetList
    \/ WorkPackageDelete
    \/ UserGetList
    \/ Continue

Spec == Init /\ [][Next]_vars

(***************************************************************************)
(* prepareFilters as a state machine: a FilterOptions is drawn, then the   *)
(* function is applied to it.                                              *)
(***************************************************************************)
InitFilter ==
    /\ last = Idle
    /\ canon = CanonIdle
    /\ AuthIdle
    /\ TimeIdle
    /\ URLIdle
    /\ RaceIdle
    /\ \E f \in FilterOptionsUpTo(MaxFields) :
          filt = [fops |-> SomeOptions(f.Fields), applied |-> FALSE, values |-> NoQuery]

PrepareFilters ==
    /\ ~filt.applied
    /\ filt' = [filt EXCEPT !.applied = TRUE, !.values = prepareFilters(filt.fops)]
    /\ UNCHANGED <<dispatchVars, canonVars, authVars, timeVars, urlVars, raceVars>>

NextFilter == PrepareFilters

SpecFilter == InitFilter /\ [][NextFilter]_vars

(***************************************************************************)
(* The canonical request as a state machine: a method and two URLs with    *)
(* the same path are drawn, the second URL's query string being the first  *)
(* one's parameters in some order; then both are canonicalized.            *)
(***************************************************************************)
Methods == {<<"G", "E", "T">>, <<"g", "e", "t">>}

Paths == {<<"/", "a", "/">>, <<"a", "&", "b">>}

ParamKeys == {<<"a">>, <<"b">>, JwtKey}

ParamValues == {<<"1">>, <<"2">>, <<" ">>}

Params == [k : ParamKeys, v : ParamValues]

QueryStrings == UNION {[1..n -> Params] : n \in 0..MaxQuery}

Permutation(q, f) == [i \in 1..Len(q) |-> q[f[i]]]

Reorderings(q) ==
    {Permutation(q, f) : f \in {g \in [1..Len(q) -> 1..Len(q)] :
                                    \A i, j \in 1..Len(q) : g[i] = g[j] => i = j}}

InitJWT ==
    /\ last = Idle
    /\ filt = FiltIdle
    /\ AuthIdle
    /\ TimeIdle
    /\ URLIdle
    /\ RaceIdle
    /\ \E m \in Methods, p \in Paths, q \in QueryStrings :
          \E q2 \in Reorderings(q) :
              canon = [CanonIdle EXCEPT !.method = m,
                                        !.url1 = [Path |-> p, Query |-> q],
                                        !.url2 = [Path |-> p, Query |-> q2]]

Canonicalize ==
    /\ ~canon.applied
    /\ canon' = [canon EXCEPT
                    !.applied = TRUE,
                    !.canonical1 = canonicalizeRequest(canon.method, canon.url1),
                    !.canonical2 = canonicalizeRequest(canon.method, canon.url2),
                    !.qsh1 = createQueryStringHash(canon.method, canon.url1),
                    !.qsh2 = createQueryStringHash(canon.method, canon.url2)]
    /\ UNCHANGED <<dispatchVars, filterVars, authVars, timeVars, urlVars, raceVars>>

NextJWT == Canonicalize

SpecJWT == InitJWT /\ [][NextJWT]_vars

(***************************************************************************)
(* The three transports as a state machine.  Each step is one RoundTrip    *)
(* call by a caller that owns the request it passes: the request's header  *)
(* map is at address 1 of the memory of the call.  The cookie transport is *)
(* used by one caller at a time.                                           *)
(***************************************************************************)
InputHeaders ==
    {Header(<<>>, <<>>), Header(<<>>, <<"k=v">>), Header(<<"Basic old">>, <<"k=v">>)}

InputURLs ==
    {[Path |-> <<"/", "a">>, Query |-> <<>>],
     [Path |-> <<"/", "a">>, Query |-> <<[k |-> <<"b">>, v |-> <<"1">>]>>]}

InputRequest(u) == [Method |-> <<"G", "E", "T">>, URL |-> u, Header |-> 1]

Cookies == {[Name |-> "sid", Value |-> "s1"], [Name |-> "old", Value |-> ""]}

CookieLists == UNION {[1..n -> Cookies] : n \in 0..MaxCookies}

\* What the login exchange gives: a network error, or a response with a
\* status and the cookies it sets.
LoginReplies ==
    {[neterr |-> TRUE, status |-> 0, cookies |-> <<>>]}
    \cup {[neterr |-> FALSE, status |-> st, cookies |-> cs] : st \in {200, 401}, cs \in CookieLists}

BasicT == [Username |-> "user", Password |-> "pass"]

JWTT == [Secret |-> "secret", Issuer |-> "issuer"]

Clock == {0}

TheURL == [Path |-> <<"/", "a">>, Query |-> <<>>]

RoundTripped(name, h, out, before, logins, loginReply) ==
    [transport |-> name, headerBefore |-> h, headerAfter |-> out.mem[1],
     forwarded |-> out.forwarded, fwdHeader |-> out.mem[out.fwd.Header],
     aliased |-> out.forwarded /\ out.fwd.Header = 1,
     err |-> out.err, sessionBefore |-> before, logins |-> logins, loginReply |-> loginReply]

InitAuth ==
    /\ last = Idle
    /\ filt = FiltIdle
    /\ canon = CanonIdle
    /\ AuthURL \in {GoodAuthURL, BadAuthURL}
    /\ SessionObject = NilSession
    /\ loginCount = 0
    /\ cookieRequests = 0
    /\ cookieFailures = 0
    /\ rt = RtIdle
    /\ TimeIdle
    /\ URLIdle
    /\ RaceIdle

BasicRoundTrip ==
    /\ \E h \in InputHeaders, treply \in TransportReplies :
          rt' = RoundTripped("basic", h,
                             BasicAuthTransport_RoundTrip(BasicT, <<h>>, InputRequest(TheURL), treply),
                             NilSession, 0, NoLogin)
    /\ UNCHANGED <<AuthURL, SessionObject, loginCount, cookieRequests, cookieFailures>>
    /\ UNCHANGED <<dispatchVars, filterVars, canonVars, timeVars, urlVars, raceVars>>

CookieRoundTrip ==
    /\ cookieRequests < MaxRequests
    /\ \E h \in InputHeaders, treply \in TransportReplies,
          loginReply \in (IF SessionObject.isNil /\ AuthURL # BadAuthURL
                          THEN LoginReplies ELSE {NoLogin}) :
          LET t == [Username |-> "user", Password |-> "pass", AuthURL |-> AuthURL,
                    SessionObject |-> SessionObject]
              res == CookieAuthTransport_RoundTrip(t, <<h>>, InputRequest(TheURL), loginReply, treply)
          IN  /\ rt' = RoundTripped("cookie", h, res.out, SessionObject, res.exchanges, loginReply)
              /\ SessionObject' = res.SessionObject
              /\ loginCount' = loginCount + res.exchanges
              /\ cookieRequests' = cookieRequests + 1
              /\ cookieFailures' = cookieFailures + (IF res.out.err # ErrNil THEN 1 ELSE 0)
    /\ UNCHANGED AuthURL
    /\ UNCHANGED <<dispatchVars, filterVars, canonVars, timeVars, urlVars, raceVars>>

JWTRoundTrip ==
    /\ \E h \in InputHeaders, u \in InputURLs, treply \in TransportReplies,
          now \in Clock, tick \in {0, 1} :
          rt' = RoundTripped("jwt", h,
                             JWTAuthTransport_RoundTrip(JWTT, <<h>>, InputRequest(u),
                                                        now, now + tick, treply),
                             NilSession, 0, NoLogin)
    /\ UNCHANGED <<AuthURL, SessionObject, loginCount, cookieRequests, cookieFailures>>
    /\ UNCHANGED <<dispatchVars, filterVars, canonVars, timeVars, urlVars, raceVars>>

NextAuth ==
    \/ BasicRoundTrip
    \/ CookieRoundTrip
    \/ JWTRoundTrip

SpecAuth == InitAuth /\ [][NextAuth]_vars

(***************************************************************************)
(* Two goroutines in CookieAuthTransport.RoundTrip on the same transport.  *)
(* Nothing orders their accesses to t.SessionObject.  The field is a slice *)
(* header of several words: a store writes the words one after another, in *)
(* an order the build chooses, and other accesses may fall in between.     *)
(* slice.ptr names the goroutine whose login made the array the header     *)
(* points to (0: the nil slice), slice.len is the length word.             *)
(***************************************************************************)
\* What an element beyond the end of the array reads as.
Garbage == [Name |-> "?", Value |-> "?"]

\* The slice the words show: nil when the pointer word is nil, else len
\* elements starting at the array of the goroutine the pointer names.
SliceValue(sl, cs) ==
    IF sl.ptr = 0 THEN NilSession
    ELSE [isNil |-> FALSE,
          cookies |-> [i \in 1..sl.len |->
                          IF i <= Len(cs[sl.ptr].session.cookies)
                          THEN cs[sl.ptr].session.cookies[i] ELSE Garbage]]

RaceLoginReplies ==
    {[neterr |-> TRUE, status |-> 0, cookies |-> <<>>]}
    \cup {[neterr |-> FALSE, status |-> 200, cookies |-> cs] : cs \in CookieLists}

InitRace ==
    /\ last = Idle
    /\ filt = FiltIdle
    /\ canon = CanonIdle
    /\ TimeIdle
    /\ URLIdle
    /\ AuthURL = GoodAuthURL
    /\ SessionObject = NilSession
    /\ loginCount = 0
    /\ cookieRequests = 0
    /\ cookieFailures = 0
    /\ rt = RtIdle
    /\ callers = [g \in Goroutines |-> [CallerIdle EXCEPT !.pc = "start"]]
    /\ slice = [ptr |-> 0, len |-> 0]
    /\ stores = <<>>

RaceFrame ==
    /\ UNCHANGED <<AuthURL, cookieRequests, cookieFailures, rt>>
    /\ UNCHANGED <<dispatchVars, filterVars, canonVars, timeVars, urlVars>>

\* if t.SessionObject == nil
CheckSession(g) ==
    /\ callers[g].pc = "start"
    /\ callers' = [callers EXCEPT ![g].sawNil = (slice.ptr = 0),
                                  ![g].pc = IF slice.ptr = 0 THEN "login" ELSE "attach"]
    /\ UNCHANGED <<slice, stores, SessionObject, loginCount>>
    /\ RaceFrame

\* setSessionObject up to the value it is about to store in t.SessionObject.
Login(g) ==
    /\ callers[g].pc = "login"
    /\ \E loginReply \in RaceLoginReplies :
          LET t == [Username |-> "user", Password |-> "pass", AuthURL |-> AuthURL,
                    SessionObject |-> SessionObject]
              res == setSessionObject(t, loginReply)
          IN  /\ loginCount' = loginCount + res.exchanges
              /\ callers' = [callers EXCEPT
                                ![g].loginReply = loginReply,
                                ![g].session = res.SessionObject,
                                ![g].err = IF res.err # ErrNil THEN ErrCookieAuth ELSE ErrNil,
                                ![g].pending = IF res.err # ErrNil THEN {} ELSE {"ptr", "len"},
                                ![g].pc = IF res.err # ErrNil THEN "done" ELSE "store"]
    /\ UNCHANGED <<slice, stores, SessionObject>>
    /\ RaceFrame

\* t.SessionObject = resp.Cookies(), one word of the slice header at a time.
StoreWord(g) ==
    /\ callers[g].pc = "store"
    /\ \E w \in callers[g].pending :
          /\ slice' = IF w = "ptr" THEN [slice EXCEPT !.ptr = g]
                      ELSE [slice EXCEPT !.len = Len(callers[g].session.cookies)]
          /\ callers' = [callers EXCEPT
                            ![g].pending = @ \ {w},
                            ![g].pc = IF callers[g].pending = {w} THEN "attach" ELSE "store"]
          /\ stores' = stores
                        \o (IF callers[g].pending = {"ptr", "len"} THEN <<[g |-> g, at |-> "begin"]>>
                            ELSE <<>>)
                        \o (IF callers[g].pending = {w} THEN <<[g |-> g, at |-> "end"]>> ELSE <<>>)
    /\ SessionObject' = SliceValue(slice', callers')
    /\ UNCHANGED loginCount
    /\ RaceFrame

\* The loop over t.SessionObject on the clone, and the forwarding.
Attach(g) ==
    /\ callers[g].pc = "attach"
    /\ callers' = [callers EXCEPT
                      ![g].attached = SelectSeq(SliceValue(slice, callers).cookies,
                                               LAMBDA c : c.Value # ""),
                      ![g].pc = "done"]
    /\ UNCHANGED <<slice, stores, SessionObject, loginCount>>
    /\ RaceFrame

NextRace ==
    \E g \in Goroutines :
        \/ CheckSession(g)
        \/ Login(g)
        \/ StoreWord(g)
        \/ Attach(g)

SpecRace == InitRace /\ [][NextRace]_vars

(***************************************************************************)
(* URLs: url.Parse, URL.String, URL.ResolveReference, NewClient and the    *)
(* lines of Client.NewRequestWithContext that make the request URL.        *)
(* URL strings are sequences of characters.  The URLs of the model have no *)
(* user info, no port, no escapes, no scheme without "//" after it and no  *)
(* "?" without a query behind it.                                          *)
(***************************************************************************)
\* strings.Index and strings.LastIndex for a one-character substring, counted
\* from 1; 0 when the character does not occur.
IndexOf(s, c) ==
    IF \E i \in 1..Len(s) : s[i] = c
    THEN CHOOSE i \in 1..Len(s) : s[i] = c /\ \A j \in 1..(i - 1) : s[j] # c
    ELSE 0

LastIndexOf(s, c) ==
    IF \E i \in 1..Len(s) : s[i] = c
    THEN CHOOSE i \in 1..Len(s) : s[i] = c /\ \A j \in (i + 1)..Len(s) : s[j] # c
    ELSE 0

HasPrefix(s, prefix) == Len(s) >= Len(prefix) /\ SubSeq(s, 1, Len(prefix)) = prefix

HasSuffix(s, suffix) ==
    Len(s) >= Len(suffix) /\ SubSeq(s, Len(s) - Len(suffix) + 1, Len(s)) = suffix

\* strings.Cut(s, sep) for a one-character sep.
Cut(s, c) ==
    LET i == IndexOf(s, c)
    IN  IF i = 0 THEN [before |-> s, after |-> <<>>, found |-> FALSE]
        ELSE [before |-> SubSeq(s, 1, i - 1), after |-> SubSeq(s, i + 1, Len(s)), found |-> TRUE]

RECURSIVE SplitOn(_, _)
SplitOn(s, c) ==
    LET cut == Cut(s, c)
    IN  IF ~cut.found THEN <<s>> ELSE <<cut.before>> \o SplitOn(cut.after, c)

Letters == {"a", "b", "d", "e", "h", "i", "k", "o", "p", "r", "s", "t", "u", "v", "x"}

SchemeMarks == {"0", "1", "2", "3", "4", "+", "-", "."}

ErrMissingScheme == "missing protocol scheme"
ErrColonInFirstSegment == "first path segment in URL cannot contain colon"

\* getScheme: the letters before the first ":", when nothing else precedes it.
RECURSIVE getScheme(_, _)
getScheme(rawURL, i) ==
    IF i > Len(rawURL) THEN [scheme |-> <<>>, path |-> rawURL, err |-> ErrNil]
    ELSE IF rawURL[i] \in Letters THEN getScheme(rawURL, i + 1)
    ELSE IF rawURL[i] \in SchemeMarks
    THEN IF i = 1 THEN [scheme |-> <<>>, path |-> rawURL, err |-> ErrNil]
         ELSE getScheme(rawURL, i + 1)
    ELSE IF rawURL[i] = ":"
    THEN IF i = 1 THEN [scheme |-> <<>>, path |-> <<>>, err |-> ErrMissingScheme]
         ELSE [scheme |-> SubSeq(rawURL, 1, i - 1), path |-> SubSeq(rawURL, i + 1, Len(rawURL)),
               err |-> ErrNil]
    ELSE [scheme |-> <<>>, path |-> rawURL, err |-> ErrNil]

\* url.Parse: the fragment is cut off at the first "#", the query at the
\* first "?", then the scheme, the authority behind "//", and the path.
url_Parse(rawURL) ==
    LET frag == Cut(rawURL, "#")
        gs == getScheme(frag.before, 1)
        q == Cut(gs.path, "?")
        rest == q.before
        hasAuthority == HasPrefix(rest, <<"/", "/">>)
                            /\ (gs.scheme # <<>> \/ ~HasPrefix(rest, <<"/", "/", "/">>))
        behind == SubSeq(rest, 3, Len(rest))
        host == IF hasAuthority THEN Cut(behind, "/").before ELSE <<>>
        path == IF hasAuthority
                THEN (IF Cut(behind, "/").found THEN <<"/">> \o Cut(behind, "/").after ELSE <<>>)
                ELSE rest
    IN  IF gs.err # ErrNil THEN [url |-> EmptyURL, err |-> gs.err]
        ELSE IF ~HasPrefix(rest, <<"/">>) /\ IndexOf(Cut(rest, "/").before, ":") # 0
        THEN [url |-> EmptyURL, err |-> ErrColonInFirstSegment]
        ELSE [url |-> URL(gs.scheme, host, path, q.after, frag.after), err |-> ErrNil]

\* URL.String
String(u) ==
    (IF u.Scheme # <<>> THEN u.Scheme \o <<":">> ELSE <<>>)
        \o (IF (u.Scheme # <<>> \/ u.Host # <<>>) /\ (u.Host # <<>> \/ u.Path # <<>>)
            THEN <<"/", "/">> ELSE <<>>)
        \o u.Host
        \o (IF u.Path # <<>> /\ u.Path[1] # "/" /\ u.Host # <<>> THEN <<"/">> ELSE <<>>)
        \o u.Path
        \o (IF u.RawQuery # <<>> THEN <<"?">> \o u.RawQuery ELSE <<>>)
        \o (IF u.Fragment # <<>> THEN <<"#">> \o u.Fragment ELSE <<>>)

\* The loop of resolvePath over the elements between the "/"s: "." is
\* dropped, ".." removes what the last "/" started, anything else is written.
RECURSIVE RemoveDotSegments(_, _, _, _)
RemoveDotSegments(elems, i, str, first) ==
    IF i > Len(elems) THEN str
    ELSE IF elems[i] = <<".">> THEN RemoveDotSegments(elems, i + 1, str, FALSE)
    ELSE IF elems[i] = <<".", ".">>
    THEN LET index == LastIndexOf(str, "/")
         IN  IF index = 0 THEN RemoveDotSegments(elems, i + 1, <<>>, TRUE)
             ELSE RemoveDotSegments(elems, i + 1, SubSeq(str, 1, index - 1), first)
    ELSE RemoveDotSegments(elems, i + 1, (IF first THEN str ELSE str \o <<"/">>) \o elems[i], FALSE)

resolvePath(base, ref) ==
    LET full == IF ref = <<>> THEN base
                ELSE IF ref[1] # "/" THEN SubSeq(base, 1, LastIndexOf(base, "/")) \o ref
                ELSE ref
        elems == SplitOn(full, "/")
        str == RemoveDotSegments(elems, 1, <<>>, TRUE)
        r == <<"/">> \o str
                \o (IF elems[Len(elems)] \in {<<".">>, <<".", ".">>} THEN <<"/">> ELSE <<>>)
    IN  IF full = <<>> THEN <<>>
        ELSE IF Len(r) > 1 /\ r[2] = "/" THEN Tail(r) ELSE r

\* URL.ResolveReference: a new URL; neither u nor ref is written to.
ResolveReference(u, ref) ==
    LET scheme == IF ref.Scheme = <<>> THEN u.Scheme ELSE ref.Scheme
        inherit == ref.Path = <<>> /\ ref.RawQuery = <<>>
    IN  IF ref.Scheme # <<>> \/ ref.Host # <<>>
        THEN URL(scheme, ref.Host, resolvePath(ref.Path, <<>>), ref.RawQuery, ref.Fragment)
        ELSE URL(scheme, u.Host, resolvePath(u.Path, ref.Path),
                 IF inherit THEN u.RawQuery ELSE ref.RawQuery,
                 IF inherit /\ ref.Fragment = <<>> THEN u.Fragment ELSE ref.Fragment)

\* NewClient: "/" is appended to a string that does not end with it, then
\* the string is parsed.  (A nil httpClient is replaced by the default one.)
NewClient(baseURLString) ==
    LET withSlash == IF HasSuffix(baseURLString, <<"/">>) THEN baseURLString
                     ELSE baseURLString \o <<"/">>
        parsedBaseURL == url_Parse(withSlash)
    IN  IF parsedBaseURL.err # ErrNil THEN NoClient
        ELSE [isNil |-> FALSE, baseURL |-> parsedBaseURL.url]

\* Client.NewRequestWithContext, its URL: urlStr is parsed, the leading "/"s
\* of its path are trimmed, the result is resolved against c.baseURL, and
\* http.NewRequest parses the string of what came out.
RequestURL(c, urlStr) ==
    LET rel == url_Parse(urlStr)
        u == ResolveReference(c.baseURL, [rel.url EXCEPT !.Path = TrimLeftChar(@, "/")])
    IN  IF rel.err # ErrNil THEN rel ELSE url_Parse(String(u))

\* The path and query a request is sent with.
RequestURI(u) == u.Path \o (IF u.RawQuery # <<>> THEN <<"?">> \o u.RawQuery ELSE <<>>)

\* UserService.GetWithContext on the service of client c.
UsersByIdEndpoint == <<"a", "p", "i", "/", "v", "3", "/", "u", "s", "e", "r", "s", "?", "i", "d", "=">>

UserService_GetWithContext(c, accountId, reply) ==
    LET apiEndpoint == UsersByIdEndpoint \o accountId
        nr == RequestURL(c, apiEndpoint)
        d == Do(reply, ZeroObj("User"))
    IN  IF nr.err # ErrNil
        THEN [BuiltIdle EXCEPT !.op = "User.Get", !.method = "GET", !.arg = accountId,
                               !.urlStr = apiEndpoint, !.err = nr.err]
        ELSE [BuiltIdle EXCEPT !.op = "User.Get", !.method = "GET", !.arg = accountId,
                               !.urlStr = apiEndpoint, !.url = nr.url, !.sent = 1,
                               !.reply = reply, !.resp = d.resp,
                               !.err = IF d.err # ErrNil THEN NewOpenProjectError(d.resp, d.err)
                                       ELSE ErrNil,
                               !.obj = IF d.err # ErrNil THEN NilObj ELSE d.v]

\* The base URL strings given to NewClient.
BaseURLStrings ==
    {<<"h", "t", "t", "p", ":", "/", "/", "h">>,
     <<"h", "t", "t", "p", ":", "/", "/", "h", "/">>,
     <<"h", "t", "t", "p", ":", "/", "/", "h", "/", "o", "p">>,
     <<"h", "t", "t", "p", ":", "/", "/", "h", "/", "o", "p", "/">>,
     <<"h", "t", "t", "p", ":", "/", "/", "h", "/", "o", "p", "?", "x", "=", "1">>,
     <<"h", "t", "t", "p", ":", "/", "/", "h", "/", "o", "p", "#", "t", "o", "p">>,
     <<>>,
     <<"/", "o", "p">>,
     <<":", "b", "a", "d">>}

\* The endpoints given to NewRequest and to the generic operations.
URLEndpoints ==
    {<<"a", "p", "i", "/", "v", "3", "/", "u", "s", "e", "r", "s">>,
     <<"/", "a", "p", "i", "/", "v", "3", "/", "u", "s", "e", "r", "s">>,
     <<"a", "p", "i", "/", "v", "3", "/", "u", "s", "e", "r", "s", "/">>,
     <<".", ".", "/", "u", "s", "e", "r", "s">>,
     <<":", "b", "a", "d">>}

AccountIds == {<<>>, <<"1">>, <<"4", "2">>}

UserReplies ==
    {[neterr |-> TRUE, resp |-> NilHttpResponse],
     [neterr |-> FALSE, resp |-> HttpResponse(200, Body("object", TRUE, 1, 0, 0, 0, 0))],
     [neterr |-> FALSE, resp |-> HttpResponse(200, Body("invalid", TRUE, 0, 0, 0, 0, 0))],
     [neterr |-> FALSE, resp |-> HttpResponse(404, Body("object", TRUE, 0, 0, 0, 0, 0))]}

InitURL ==
    /\ last = Idle
    /\ filt = FiltIdle
    /\ canon = CanonIdle
    /\ AuthIdle
    /\ TimeIdle
    /\ RaceIdle
    /\ \E b \in BaseURLStrings : baseURL = NewClient(b)
    /\ built = BuiltIdle

BuiltRequest(op, method, urlStr, nr) ==
    [BuiltIdle EXCEPT !.op = op, !.method = method, !.urlStr = urlStr, !.err = nr.err,
                      !.url = nr.url]

\* Client.NewRequest(method, urlStr, nil)
NewRequest ==
    /\ ~baseURL.isNil
    /\ \E urlStr \in URLEndpoints :
          built' = BuiltRequest("NewRequest", "GET", urlStr, RequestURL(baseURL, urlStr))
    /\ UNCHANGED baseURL
    /\ UNCHANGED <<dispatchVars, filterVars, canonVars, authVars, timeVars, raceVars>>

\* The request of a generic operation on a service of the client: Get,
\* GetList and Delete trim the "/"s at the end of the endpoint, Create does not.
MethodOf(op) == CASE op = "Create" -> "POST" [] op = "Delete" -> "DELETE" [] OTHER -> "GET"

DispatchRequest ==
    /\ ~baseURL.isNil
    /\ \E op \in {"Get", "GetList", "Create", "Delete"}, apiEndPoint \in URLEndpoints :
          LET urlStr == IF op = "Create" THEN apiEndPoint ELSE TrimRightChar(apiEndPoint, "/")
          IN  built' = [BuiltRequest(op, MethodOf(op), urlStr, RequestURL(baseURL, urlStr))
                            EXCEPT !.arg = apiEndPoint]
    /\ UNCHANGED baseURL
    /\ UNCHANGED <<dispatchVars, filterVars, canonVars, authVars, timeVars, raceVars>>

UserGet ==
    /\ ~baseURL.isNil
    /\ \E accountId \in AccountIds, reply \in UserReplies :
          built' = UserService_GetWithContext(baseURL, accountId, reply)
    /\ UNCHANGED baseURL
    /\ UNCHANGED <<dispatchVars, filterVars, canonVars, authVars, timeVars, raceVars>>

NextURL ==
    \/ NewRequest
    \/ DispatchRequest
    \/ UserGet

SpecURL == InitURL /\ [][NextURL]_vars

(***************************************************************************)
(* Time.MarshalJSON and Time.UnmarshalJSON.  The layout of both is         *)
(* "\"2006-01-02T15:04:05Z\"": a quote, the date, T, the time of day, the   *)
(* letter Z and a quote.  The Z is not followed by 07, so it is no zone    *)
(* element of the layout: Format writes the letter, Parse expects it.      *)
(* The bytes are a sequence of characters.  The times of the model have    *)
(* their wall clock in January 1970.                                       *)
(***************************************************************************)
SecondsPerDay == 86400

DigitChar(n) == ToString(n)

DigitVal(c) == CHOOSE n \in 0..9 : DigitChar(n) = c

IsDigits(cs) == \A i \in 1..Len(cs) : cs[i] \in {DigitChar(n) : n \in 0..9}

RECURSIVE Atoi(_)
Atoi(cs) == IF cs = <<>> THEN 0 ELSE 10 * Atoi(SubSeq(cs, 1, Len(cs) - 1)) + DigitVal(cs[Len(cs)])

TwoDigits(n) == <<DigitChar(n \div 10), DigitChar(n % 10)>>

\* The day of January 1970 a number of seconds since the epoch lies in.
DayOfMonth(sec) == sec \div SecondsPerDay + 1

\* time.Time.Format with the layout: the date and the time of day the
\* Time shows in its own Location (instant + offset), then the letter Z.
Format(t) ==
    LET wall == t.unix + t.offset
        sod == wall % SecondsPerDay
    IN  <<"\"", "1", "9", "7", "0", "-", "0", "1", "-">> \o TwoDigits(DayOfMonth(wall))
            \o <<"T">> \o TwoDigits(sod \div 3600)
            \o <<":">> \o TwoDigits((sod % 3600) \div 60)
            \o <<":">> \o TwoDigits(sod % 60) \o <<"Z", "\"">>

MarshalJSON(t) == Format(t)

ErrTimeParse == "parsing time"

\* time.Parse with the layout: the value must have the layout's shape; with
\* no zone element in the layout the result is in UTC.
time_Parse(b) ==
    LET shaped == /\ Len(b) = 22
                  /\ b[1] = "\"" /\ b[6] = "-" /\ b[9] = "-" /\ b[12] = "T"
                  /\ b[15] = ":" /\ b[18] = ":" /\ b[21] = "Z" /\ b[22] = "\""
                  /\ IsDigits(SubSeq(b, 2, 5) \o SubSeq(b, 7, 8) \o SubSeq(b, 10, 11)
                                \o SubSeq(b, 13, 14) \o SubSeq(b, 16, 17) \o SubSeq(b, 19, 20))
        year == Atoi(SubSeq(b, 2, 5))
        month == Atoi(SubSeq(b, 7, 8))
        day == Atoi(SubSeq(b, 10, 11))
        hour == Atoi(SubSeq(b, 13, 14))
        min == Atoi(SubSeq(b, 16, 17))
        sec == Atoi(SubSeq(b, 19, 20))
    IN  IF ~shaped THEN [t |-> Time(0, 0), err |-> ErrTimeParse]
        ELSE IF year # 1970 \/ month # 1 \/ day \notin 1..31
                  \/ hour > 23 \/ min > 59 \/ sec > 59
        THEN [t |-> Time(0, 0), err |-> ErrTimeParse]
        ELSE [t |-> Time((day - 1) * SecondsPerDay + hour * 3600 + min * 60 + sec, 0),
              err |-> ErrNil]

\* UnmarshalJSON on receiver t: null is ignored, a parse error leaves t alone.
UnmarshalJSON(t, b) ==
    IF b = <<"n", "u", "l", "l">> THEN [t |-> t, err |-> ErrNil]
    ELSE IF time_Parse(b).err # ErrNil THEN [t |-> t, err |-> time_Parse(b).err]
    ELSE [t |-> time_Parse(b).t, err |-> ErrNil]

\* Time.Equal: the same instant, whatever the Locations.
TimeEqual(t, u) == t.unix = u.unix

\* Offsets of the Locations, in seconds east of UTC.
Offsets == {-18000, 0, 3600, 19800}

TimesOfDay == {h * 3600 + m * 60 + sec : h \in {0, 12, 23}, m \in {0, 59}, sec \in {0, 59}}

Times == {Time(d * SecondsPerDay + s, o) : d \in 1..MaxDay, s \in TimesOfDay, o \in Offsets}

InitTime ==
    /\ last = Idle
    /\ filt = FiltIdle
    /\ canon = CanonIdle
    /\ AuthIdle
    /\ URLIdle
    /\ RaceIdle
    /\ \E t \in Times : tm = [TmIdle EXCEPT !.step = "drawn", !.t = t]

MarshalTime ==
    /\ tm.step = "drawn"
    /\ tm' = [tm EXCEPT !.step = "marshalled", !.bytes = MarshalJSON(tm.t)]
    /\ UNCHANGED <<dispatchVars, filterVars, canonVars, authVars, urlVars, raceVars>>

\* The bytes are decoded into a new(Time).
UnmarshalTime ==
    /\ tm.step = "marshalled"
    /\ tm' = [tm EXCEPT !.step = "unmarshalled",
                        !.back = UnmarshalJSON(Time(0, 0), tm.bytes).t,
                        !.err = UnmarshalJSON(Time(0, 0), tm.bytes).err]
    /\ UNCHANGED <<dispatchVars, filterVars, canonVars, authVars, urlVars, raceVars>>

NextTime ==
    \/ MarshalTime
    \/ UnmarshalTime

SpecTime == InitTime /\ [][NextTime]_vars

(***************************************************************************)
(* Properties of the dispatcher (specification Spec).                      *)
(***************************************************************************)
GenericOps == {"Get", "GetList", "Create", "Delete"}

Returned == last.res.outcome = "return"

Is2xx(st) == 200 <= st /\ st <= 299

\* The server answered the call: a request went out and a response came back.
Answered == Len(last.res.sent) = 1 /\ ~last.reply.neterr

\* C1: the generic Get with a handle that is none of the eight service kinds
\* returns the "client not identified" error (no object, no response) and
\* hands no request to the HTTP transport.
C1_GetUnknownHandle ==
    (last.op = "Get" /\ last.handle.type \notin Kinds)
        => /\ Returned
           /\ last.res.err = ErrNullClient
           /\ last.res.obj = NilObj
           /\ ~last.res.resp.present
           /\ last.res.sent = <<>>

C1_Witness ==
    /\ last.op = "Get"
    /\ last.handle = [type |-> "AuthenticationService", client |-> TheClient]
    /\ last.endpoint = "api/v3/work_packages/1"
    /\ ~last.reply.neterr /\ last.reply.resp.status = 200
    /\ last.res.err = ErrNullClient

\* C2: GetList, Create and Delete with a handle whose client the resolver
\* cannot give (an unknown handle, or a nil client) return the "client not
\* identified" error: no request goes out and the call does not panic.
\* (Stated for the endpoints url.Parse accepts; for the others the three
\* operations return the url.Parse error.)
ClientUnresolved ==
    IF last.op = "GetList"
    THEN getObjectListAndClient(last.handle).client = NilClient
    ELSE getObjectAndClient(last.handle).client = NilClient

C2_UnresolvedClientIsAnError ==
    (last.op \in {"GetList", "Create", "Delete"} /\ ClientUnresolved
                                                /\ last.endpoint \notin BadURLs)
        => /\ Returned
           /\ last.res.err = ErrNullClient
           /\ last.res.sent = <<>>

\* C3: for each of the eight handles NewClient makes, the object resolver and
\* the list resolver both return the owning client and a non-nil result
\* object: the kind's own type, respectively the kind's envelope type.
C3_ResolutionTotal ==
    /\ (last.op = "getObjectAndClient" /\ last.handle \in {OwnedHandle(k) : k \in Kinds})
          => /\ last.res.client = TheClient
             /\ last.res.obj = ZeroObj(last.handle.type)
    /\ (last.op = "getObjectListAndClient" /\ last.handle \in {OwnedHandle(k) : k \in Kinds})
          => /\ last.res.client = TheClient
             /\ last.res.obj.type \in EnvelopeTypes
             /\ last.res.obj # NilObj

\* C4: a work-package Get that the server answers with a status outside
\* 200..299 returns to its caller with a non-nil error and the Response that
\* wraps the raw response; answered within 200..299 with a body that decodes,
\* it returns the decoded work package and a nil error.
C4_WorkPackageGetStatus ==
    (last.op = "WorkPackage.Get" /\ Answered)
        => /\ ~Is2xx(last.reply.resp.status)
                => /\ Returned
                   /\ last.res.err # ErrNil
                   /\ last.res.resp.present
                   /\ last.res.resp.raw = last.reply.resp
           /\ (Is2xx(last.reply.resp.status) /\ ~JSONError(last.reply.resp.body))
                => /\ Returned
                   /\ last.res.err = ErrNil
                   /\ last.res.obj.type = "WorkPackage"
                   /\ last.res.obj.id = last.reply.resp.body.id

\* C5: a successful list call for work packages, users, queries, projects,
\* statuses or categories returns a Response whose Total, Count, PageSize and
\* Offset are those of the decoded envelope; a successful single-resource
\* call and a call that ends in a status error return a Response in which the
\* four are zero.
ListOps == {"GetList", "WorkPackage.GetList", "User.GetList"}

SingleOps == {"Get", "Create", "Delete", "WorkPackage.Get", "WorkPackage.Create",
              "WorkPackage.Delete"}

PageOf(r) == <<r.Total, r.Count, r.PageSize, r.Offset>>

C5_PageValues ==
    /\ (/\ last.op \in ListOps
        /\ last.handle.type \in DOMAIN EnvelopeType
        /\ Answered /\ Returned /\ last.res.err = ErrNil)
          => PageOf(last.res.resp) =
                <<last.reply.resp.body.total, last.reply.resp.body.count,
                  last.reply.resp.body.pageSize, last.reply.resp.body.offset>>
    /\ (last.op \in SingleOps /\ Answered /\ Returned /\ last.res.err = ErrNil)
          => PageOf(last.res.resp) = <<0, 0, 0, 0>>
    /\ (Answered /\ Returned /\ last.res.err = ErrStatus)
          => PageOf(last.res.resp) = <<0, 0, 0, 0>>

\* C12: a Create call (the generic one, or the work-package service's) that
\* the server answers with a status outside 200..299, or with a body that
\* cannot be read or parsed, returns to its caller with a non-nil error and
\* the Response that wraps the raw response.
C12_CreateFailureKeepsResponse ==
    (/\ last.op \in {"Create", "WorkPackage.Create"}
     /\ Answered
     /\ ~Is2xx(last.reply.resp.status) \/ JSONError(last.reply.resp.body))
        => /\ Returned
           /\ last.res.err # ErrNil
           /\ last.res.resp.present
           /\ last.res.resp.raw = last.reply.resp

\* C16: a call of the generic Get, GetList, Create or Delete hands at most
\* one request to the HTTP transport, whatever the outcome; a transport
\* error, a status outside 200..299 and a body that does not decode into the
\* result are each returned as the error of that one call, and a call that
\* met none of them returns a nil error.
DecodesBody ==
    \/ last.op \in {"Get", "Create"}
    \/ last.op = "GetList" /\ last.handle.type \in DOMAIN EnvelopeType

CallFailure ==
    IF last.reply.neterr THEN ErrTransport
    ELSE IF ~Is2xx(last.reply.resp.status) THEN ErrStatus
    ELSE IF DecodesBody /\ JSONError(last.reply.resp.body) THEN "decode"
    ELSE ErrNil

C16_NoRetries ==
    last.op \in GenericOps
        => /\ Len(last.res.sent) <= 1
           /\ (Returned /\ Len(last.res.sent) = 1)
                => /\ CallFailure = ErrNil <=> last.res.err = ErrNil
                   /\ CallFailure \in {ErrTransport, ErrStatus} => last.res.err = CallFailure
                   /\ CallFailure = "decode" => last.res.err \in {ErrDecode, ErrRead, ErrUnmarshal}
                   /\ last.res.err # ErrNil => last.res.obj = NilObj

C16_Witness ==
    /\ last.op = "Delete"
    /\ last.handle = OwnedHandle("WorkPackage")
    /\ last.reply.neterr
    /\ Len(last.res.sent) = 1
    /\ last.res.err = ErrTransport
    /\ ~last.res.resp.present

\* C18: the one request a Create call sends is a POST whose body is the zero
\* value of the handle's result type, whatever work package the caller passed
\* to WorkPackageService.Create; on success the object returned is that
\* result object with the members of the response body stored in it.
C18_CreateSendsZeroObject ==
    (last.op \in {"Create", "WorkPackage.Create"} /\ Len(last.res.sent) = 1)
        => /\ last.res.sent[1].method = "POST"
           /\ last.res.sent[1].body = ZeroObj(last.handle.type)
           /\ (Returned /\ last.res.err = ErrNil)
                => last.res.obj = [ZeroObj(last.handle.type) EXCEPT !.id = last.reply.resp.body.id]

C18_Witness ==
    /\ last.op = "WorkPackage.Create"
    /\ last.payload = [ZeroObj("WorkPackage") EXCEPT !.id = 1]
    /\ Len(last.res.sent) = 1
    /\ last.res.sent[1].body = ZeroObj("WorkPackage")
    /\ Returned /\ last.res.err = ErrNil
    /\ last.res.obj.id = 1

(***************************************************************************)
(* Properties of the canonical request (specification SpecJWT).            *)
(***************************************************************************)
\* The query string of u without its parameters named jwt.
WithoutJwt(u) == [u EXCEPT !.Query = SelectSeq(u.Query, LAMBDA p : p.k # JwtKey)]

\* C9: two URLs with the same method and path whose query strings hold the
\* same parameters in different orders have the same canonical string and
\* the same qsh, and a parameter named jwt adds nothing to the canonical
\* string.
C9_CanonicalOrderIndependent ==
    canon.applied
        => /\ canon.canonical1 = canon.canonical2
           /\ canon.qsh1 = canon.qsh2
           /\ canon.canonical1 = canonicalizeRequest(canon.method, WithoutJwt(canon.url1))

(***************************************************************************)
(* Properties of prepareFilters (specification SpecFilter).                *)
(***************************************************************************)
\* The JSON text of one filter object, and of the array of the objects of a
\* sequence of triples: the elements separated by commas.  The operator
\* symbol is the one interpretOperator gives.
JSONFilterObject(f) ==
    "{\"" \o f.Field \o "\":{\"operator\":\"" \o interpretOperator(f.Operator)
        \o "\",\"values\":[\"" \o f.Value \o "\"]}}"

RECURSIVE JSONElements(_, _)
JSONElements(fields, i) ==
    IF i > Len(fields) THEN ""
    ELSE (IF i > 1 THEN "," ELSE "") \o JSONFilterObject(fields[i]) \o JSONElements(fields, i + 1)

JSONArray(fields) == "[" \o JSONElements(fields, 1) \o "]"

\* C10: for any number of triples prepareFilters yields exactly one "filters"
\* parameter whose value is the JSON array of the triples' objects, in order;
\* [{status, =, open}] yields [{"status":{"operator":"=","values":["open"]}}].
C10_FiltersIsJSONArray ==
    filt.applied
        => /\ DOMAIN filt.values = {"filters"}
           /\ Len(filt.values["filters"]) = 1
           /\ filt.values["filters"][1] = JSONArray(filt.fops.Fields)
           /\ (filt.fops.Fields = <<[Field |-> "status", Operator |-> Equal, Value |-> "open"]>>
                 => filt.values["filters"][1]
                      = "[{\"status\":{\"operator\":\"=\",\"values\":[\"open\"]}}]")

\* The symbol the SearchOperator constants are declared with.
OperatorSymbol(operator) ==
    CASE operator = Equal -> "="
      [] operator = Different -> "<>"
      [] operator = GreaterThan -> ">"
      [] operator = LowerThan -> "<"
      [] operator = SearchString -> "**"
      [] operator = Like -> "~"
      [] operator = GreaterOrEqual -> ">="
      [] operator = LowerOrEqual -> "<="

SymbolFilterObject(f) ==
    "{\"" \o f.Field \o "\":{\"operator\":\"" \o OperatorSymbol(f.Operator)
        \o "\",\"values\":[\"" \o f.Value \o "\"]}}"

\* C11: the filter object of a triple carries the symbol of the triple's
\* operator (= <> > < ** ~ >= <=), and no two of the eight operators are
\* serialized to the same symbol.
C11_OperatorSymbols ==
    (filt.applied /\ Len(filt.fops.Fields) = 1)
        => /\ filt.values["filters"][1] = "[" \o SymbolFilterObject(filt.fops.Fields[1]) \o "]"
           /\ \A o \in SearchOperators \ {filt.fops.Fields[1].Operator} :
                 interpretOperator(o) # interpretOperator(filt.fops.Fields[1].Operator)

(***************************************************************************)
(* Properties of the transports (specification SpecAuth).                  *)
(***************************************************************************)
\* C6: used by one caller at a time, the cookie transport makes exactly one
\* login exchange in a request that finds no session and is forwarded, none
\* in a request that finds a session; after any number n >= 1 of requests
\* that all succeeded it has made exactly one login exchange, also when the
\* login response set no cookie.
C6_OneLoginExchange ==
    /\ rt.transport = "cookie"
          => /\ (rt.sessionBefore.isNil /\ rt.forwarded) => rt.logins = 1
             /\ (rt.sessionBefore.isNil /\ AuthURL # BadAuthURL) => rt.logins = 1
             /\ ~rt.sessionBefore.isNil => rt.logins = 0
    /\ (cookieRequests >= 1 /\ cookieFailures = 0) => loginCount = 1

C6_Witness ==
    /\ cookieRequests >= 2
    /\ cookieFailures = 0
    /\ loginCount = 1
    /\ SessionObject = [isNil |-> FALSE, cookies |-> <<>>]
    /\ rt.transport = "cookie"
    /\ ~rt.sessionBefore.isNil
    /\ rt.forwarded

\* C7: when the login exchange fails, by a network error or by a response
\* whose status is not 2xx, the request fails with the authentication error,
\* is not forwarded, and no session is cached (so that the next request
\* logs in again).
LoginFailed == rt.loginReply.neterr \/ ~Is2xx(rt.loginReply.status)

C7_LoginFailureIsAuthError ==
    (rt.transport = "cookie" /\ rt.logins = 1 /\ LoginFailed)
        => /\ rt.err = ErrCookieAuth
           /\ ~rt.forwarded
           /\ SessionObject.isNil

\* C8: for each of the three transports the header map of the request passed
\* in is the same after the call as before it; what is forwarded is another
\* request with its own header map, which carries the credentials and, for
\* the rest, the headers of the input.
CredentialKey == IF rt.transport = "cookie" THEN "Cookie" ELSE "Authorization"

HasCredentials ==
    CASE rt.transport = "basic" ->
            rt.fwdHeader["Authorization"] = <<"Basic base64(user:pass)">>
      [] rt.transport = "jwt" ->
            /\ Len(rt.fwdHeader["Authorization"]) = 1
            /\ rt.fwdHeader["Authorization"] # rt.headerBefore["Authorization"]
      [] rt.transport = "cookie" ->
            (\E i \in 1..Len(SessionObject.cookies) : SessionObject.cookies[i].Value # "")
                => /\ Len(rt.fwdHeader["Cookie"]) = 1
                   /\ rt.fwdHeader["Cookie"] # rt.headerBefore["Cookie"]
      [] OTHER -> FALSE

C8_InputHeaderUnchanged ==
    rt.transport # "idle"
        => /\ rt.headerAfter = rt.headerBefore
           /\ rt.forwarded
                => /\ ~rt.aliased
                   /\ HasCredentials
                   /\ \A k \in HeaderKeys \ {CredentialKey} : rt.fwdHeader[k] = rt.headerBefore[k]

C8_Witness ==
    /\ rt.transport = "cookie"
    /\ rt.forwarded
    /\ rt.headerBefore = Header(<<"Basic old">>, <<"k=v">>)
    /\ rt.headerAfter = Header(<<"Basic old">>, <<"k=v">>)
    /\ rt.fwdHeader = Header(<<"Basic old">>, <<"k=v; sid=s1">>)

\* The Cookie header a request must carry: the line the input request had,
\* followed by name=value of each cookie of the list, separated by "; ".
RECURSIVE CookieLine(_)
CookieLine(pieces) ==
    IF Len(pieces) = 1 THEN pieces[1] ELSE pieces[1] \o "; " \o CookieLine(Tail(pieces))

NonEmptyCookies(cookies) == SelectSeq(cookies, LAMBDA c : c.Value # "")

ExpectedCookieHeader(inputHeader, cookies) ==
    LET pieces == inputHeader["Cookie"]
                    \o [i \in 1..Len(cookies) |-> cookies[i].Name \o "=" \o cookies[i].Value]
    IN  IF pieces = <<>> THEN <<>> ELSE <<CookieLine(pieces)>>

\* C19: once the cookie transport holds a session, no request changes it, and
\* a request that finds the session is forwarded with exactly the cached
\* cookies of non-empty value attached (after the cookies the request had).
C19_CachedSessionReused ==
    /\ []((rt.transport = "cookie" /\ ~rt.sessionBefore.isNil)
            => /\ rt.forwarded
               /\ rt.logins = 0
               /\ rt.fwdHeader["Cookie"]
                    = ExpectedCookieHeader(rt.headerBefore, NonEmptyCookies(rt.sessionBefore.cookies)))
    /\ [][~SessionObject.isNil => SessionObject' = SessionObject]_vars

C19_Witness ==
    /\ rt.transport = "cookie"
    /\ rt.sessionBefore = [isNil |-> FALSE,
                           cookies |-> <<[Name |-> "sid", Value |-> "s1"],
                                         [Name |-> "old", Value |-> ""]>>]
    /\ SessionObject = rt.sessionBefore
    /\ rt.forwarded
    /\ rt.headerBefore["Cookie"] = <<"k=v">>
    /\ rt.fwdHeader["Cookie"] = <<"k=v; sid=s1">>

(***************************************************************************)
(* Properties of the request URL (specification SpecURL).                  *)
(***************************************************************************)
\* C13: UserService.Get on a client whose base URL is the root of a server
\* sends one GET request; its URL is /api/v3/users?id=<accountId> for a
\* non-empty accountId and /api/v3/users for an empty one; answered 2xx with
\* a body that decodes, the call returns a user and a nil error.
UsersURI == <<"/", "a", "p", "i", "/", "v", "3", "/", "u", "s", "e", "r", "s">>

C13_UserGetRequest ==
    (built.op = "User.Get" /\ baseURL.baseURL.Path = <<"/">>)
        => /\ built.sent = 1
           /\ built.method = "GET"
           /\ RequestURI(built.url)
                = UsersURI \o (IF built.arg # <<>> THEN <<"?", "i", "d", "=">> \o built.arg ELSE <<>>)
           /\ (/\ ~built.reply.neterr
               /\ Is2xx(built.reply.resp.status)
               /\ ~JSONError(built.reply.resp.body))
                => /\ built.err = ErrNil
                   /\ built.obj.type = "User"

\* C15: the path of the base URL of a client NewClient returned ends with
\* "/"; no operation changes the base URL; and an endpoint that is a
\* relative path of plain segments, with or without "/"s in front, gets the
\* request path <base path><endpoint path>.
PlainRelative(urlStr) ==
    LET rel == url_Parse(urlStr)
    IN  /\ rel.err = ErrNil
        /\ rel.url.Scheme = <<>> /\ rel.url.Host = <<>>
        /\ \A i \in 1..Len(SplitOn(rel.url.Path, "/")) :
              SplitOn(rel.url.Path, "/")[i] \notin {<<".">>, <<".", ".">>}

C15_BaseURLEndsWithSlash ==
    /\ [](~baseURL.isNil
            => /\ HasSuffix(baseURL.baseURL.Path, <<"/">>)
               /\ (built.op \in {"NewRequest", "Get", "GetList", "Create", "Delete"}
                        /\ PlainRelative(built.urlStr))
                    => /\ built.err = ErrNil
                       /\ built.url.Path = baseURL.baseURL.Path
                                \o TrimLeftChar(url_Parse(built.urlStr).url.Path, "/"))
    /\ [][baseURL' = baseURL]_vars

(***************************************************************************)
(* Properties of two concurrent first requests (specification SpecRace).   *)
(***************************************************************************)
\* C17: with two goroutines on a fresh cookie transport, every goroutine that
\* saw no session makes a login exchange of its own, so that two exchanges
\* are made when both saw none; and when both logins succeeded and their
\* stores of the session did not overlap, the session left in the transport
\* is the cookies of the login that stored last.
PastLogin(g) == callers[g].sawNil /\ callers[g].pc \in {"store", "attach", "done"}

BothLoggedIn ==
    \A g \in Goroutines : callers[g].pc = "done" /\ callers[g].sawNil /\ callers[g].err = ErrNil

StoresInTurn == Len(stores) = 4 /\ stores[2].at = "end"

C17_LazyLoginRace ==
    /\ loginCount = Cardinality({g \in Goroutines : PastLogin(g)})
    /\ (\A g \in Goroutines : PastLogin(g)) => loginCount = 2
    /\ (BothLoggedIn /\ StoresInTurn)
          => SessionObject = ResponseCookies(callers[stores[4].g].loginReply)

C17_Witness ==
    /\ BothLoggedIn
    /\ StoresInTurn
    /\ stores[4].g = 2
    /\ loginCount = 2
    /\ callers[1].loginReply.cookies = <<>>
    /\ callers[2].loginReply.cookies = <<[Name |-> "sid", Value |-> "s1"]>>
    /\ SessionObject = ResponseCookies(callers[2].loginReply)
    /\ callers[1].attached = <<>>

(***************************************************************************)
(* Properties of the Time codec (specification SpecTime).                  *)
(***************************************************************************)
\* C14: the bytes MarshalJSON makes of a Time (whole seconds, any zone
\* offset) are decoded by UnmarshalJSON without an error into a Time that
\* is Equal to the original: the same instant.
C14_TimeRoundTrip ==
    tm.step = "unmarshalled"
        => /\ tm.err = ErrNil
           /\ TimeEqual(tm.back, tm.t)

====
